---------------------------- MODULE Spec2Model ----------------------------
(***************************************************************************)
(* Weather station telemetry link: the sender (code/weather_station) packs *)
(* one record of 16 int16 per cycle and writes it to the nRF24 radio; the  *)
(* receiver (code/receive) reads delivered records, validates the packet   *)
(* sequence and frames each record onto the serial line.                   *)
(*                                                                         *)
(* Spec        the composed system from boot: sender loop, radio, receiver.*)
(*             The receiver is powered first and polls its radio faster    *)
(*             than the sender's cycle; sensors silent, no wind.           *)
(* SpecTx      the sender alone: rain switch, anemometer pulses, every     *)
(*             result of radio.write(), radio present or not, resets       *)
(* SpecRx      the receiver alone, fed arbitrary records by the radio      *)
(* SpecRxLong  SpecRx, or the receiver fed one long in-sequence stream     *)
(***************************************************************************)
EXTENDS Integers, Sequences, FiniteSets, TLC

(***************************************************************************)
(* Integer widths of the target (AVR: int16_t, uint16_t, unsigned long).   *)
(***************************************************************************)
Two8 == 256
Two16 == 65536

\* (uint16_t)x
ToUint16(x) == x % Two16

\* (int16_t)x for an integer x: two's complement narrowing
ToInt16(x) == IF (x % Two16) >= (Two16 \div 2) THEN (x % Two16) - Two16 ELSE x % Two16

\* (a - b) > limit in unsigned long arithmetic, for a, b < 2^31 and limit < 2^31:
\* when a < b the difference wraps to a - b + 2^32, which exceeds every such limit
ElapsedExceeds(a, b, limit) == IF a >= b THEN (a - b) > limit ELSE TRUE

(***************************************************************************)
(* Bounds of the model.                                                    *)
(***************************************************************************)
\* records the radio hands to the receiver in a run of SpecRx
MaxArrivals == 3
\* payloads waiting in the receiver's RX FIFO
MaxFifo == 2
\* calls of readRainReedData() in a run of SpecRain
MaxRainTicks == 5
\* records fed to the receiver in a run of SpecFrame
MaxFrames == 1
\* sender cycles (loop() iterations) in a run of Spec
MaxCycles == 7
\* sender cycles in a run of SpecRestart
MaxRestartCycles == 9
\* sender cycles in a run of SpecTx
MaxTxCycles == 4
\* rising edges of the anemometer in a run
MaxPulses == 2
\* validated rain tips in a run
MaxTips == 2
\* writes delivered but reported as failed (acknowledgement lost) in a run
MaxAckLosses == 1
\* sender resets in a run
MaxRestarts == 1
\* arrivals of the long in-sequence stream beyond the 65536 that wrap the 16-bit counters
MaxWrapTail == 2
\* statistics lines counted between two arrivals
MaxStatsSeen == 2
\* uptime (ms) up to which the failed tries of ccs811.begin() are followed
MaxSetupWait == 3000

(***************************************************************************)
(* Program constants.                                                      *)
(***************************************************************************)
\* const byte length = 16
length == 16
\* (nowMs - lastPacketMs) > 5000UL
IdleResyncMs == 5000
\* looksLikeReset = (currentPacketNumber <= 5)
ResetThreshold == 5
\* delay(500) at the end of the receiver's setup()
RxSetupDelayMs == 500
\* index of the packet number in the record
SeqIdx == 7
\* #define WIND_MEASUREMENT_TIME 1000: the sender's delay in every cycle
WIND_MEASUREMENT_TIME == 1000
\* #define RESET_INTERVAL 3600000
RESET_INTERVAL == 3600000
\* (millis() - lastChanged) > 250
DebounceMs == 250
\* if (packetNumber % 100 == 0) printTransmissionStats()
StatsEvery == 100

Fields == 0 .. (length - 1)

\* a record with every field 0 (the zero-initialised global array)
ZeroRecord == [i \in Fields |-> 0]

VARIABLES
  \* ---- environment
  now,              \* wall clock, ms
  traffic,          \* what feeds the receiver's radio: "any", "stream", "fields", "sender",
                    \* or "none" (the sender alone: the receiver is not modelled), or
                    \* "rain" (readRainReedData() alone), or "restart" (the sender
                    \* through a reset, with no rain), or "rainlong"
                    \* (readRainReedData() alone, the reed switch changing between
                    \* every two calls, with no successful write)
  radioFifo,        \* payloads received by the receiver's radio, not yet read
  resetWired,       \* RESET_PIN is wired to the board's reset input
  ccsPresent,       \* a CCS811 answers on the bus: ccs811.begin() can return 0
  \* ---- receiver (code/receive/receive.ino)
  rxPc,             \* "boot" before setup(), "loop" after
  rxResults,        \* int16_t results[length]
  lastPacketNumber, \* uint16_t
  receivedPackets,  \* uint16_t
  lostPackets,      \* uint16_t
  isSynced,         \* bool
  lastPacketMs,     \* unsigned long
  serialOut,        \* what the latest loop() that wrote to Serial wrote
  \* ---- sender (code/weather_station/weather_station.ino)
  txPc,             \* "boot", "ccs_init", "read", "anemo", "window", "send", "check"
  txBootAt,         \* wall clock at the sender's last boot: millis() = now - txBootAt
  bme_sensor_available,
  mlx_sensor_available,
  light_sensor_available,
  ccs811_sensor_available,
  radio_available,
  InterruptCounter, \* int
  intAttached,      \* the anemometer interrupt is attached
  wind_revolutions_this_cycle,
  firstLoop,
  lastState,
  lastChanged,
  accumulated_rain_tips,
  rain_data_pending,
  results,          \* int16_t results[16]
  packetNumber,     \* uint16_t
  successfulTransmissions,
  failedTransmissions,
  time_stamp,
  txSerial,         \* what the latest sender step wrote to Serial
  \* ---- history of the run (not program state)
  arrivals,         \* records handed to the receiver's radio so far
  rxEv,             \* the latest arrival processed: state before it, inputs, branch,
                    \* the record, its arrival number and the sender boot it is from
                    \* (and that of the arrival before), the sum of the loss deltas
                    \* and the frames written so far
  rxFirstId,        \* the first radio.write whose record the receiver processed (0: none)
  rxLastId,         \* the latest radio.write whose record the receiver processed
  rxCount,          \* records of the sender the receiver has processed
  rxUncounted,      \* writes skipped just before an arrival handled as sync or restart
  statsSince,       \* statistics lines written since the latest arrival was read
                    \* (counted up to MaxStatsSeen)
  rxScen,           \* k: the arrivals so far are the first k of 0, 1, 2, 4, each within
                    \* 5000 ms of the one before; -1: they are not
  cycles,           \* sender loop() iterations started so far
  writes,           \* radio.write calls so far
  attempts,         \* radio.write calls since the sender's last boot
  lastAttempt,      \* the latest radio.write call, and the one before it
  txScen,           \* k: the writes so far are the first k of ok, ok, ok, lost, any;
                    \* -1: they are not
  txRestarts,       \* sender resets so far
  ackLosses,        \* writes delivered but reported as failed
  tipsValidated,    \* rain tips the debouncer has accepted so far
  tipsSentOk,       \* sum of results[5] over the writes that returned true
  tipsDelivered,    \* sum of results[5] over the records delivered to the receiver
  pulses,           \* rising edges of the anemometer so far
  windowEdges,      \* rising edges of the anemometer since the latest window opened,
                    \* while it was open
  sensed,           \* the sensor readings the latest loop() pass read
  rainEv            \* the sampling ticks of the rain switch since boot: how many, the
                    \* level and time of the latest, the latest two rising edges seen

envFixed == <<traffic, resetWired, ccsPresent>>

\* the receiver's radio is fed by the modelled sender
FromSender == traffic \in {"sender", "restart"}
envVars == <<now, envFixed, radioFifo>>
rxVars == <<rxPc, rxResults, lastPacketNumber, receivedPackets, lostPackets,
            isSynced, lastPacketMs, serialOut>>
txVars == <<txPc, txBootAt, bme_sensor_available, mlx_sensor_available,
            light_sensor_available, ccs811_sensor_available, radio_available,
            InterruptCounter, intAttached, wind_revolutions_this_cycle,
            firstLoop, lastState, lastChanged, accumulated_rain_tips, rain_data_pending,
            results, packetNumber, successfulTransmissions, failedTransmissions,
            time_stamp, txSerial>>
rxHist == <<rxEv, rxFirstId, rxLastId, rxCount, rxUncounted, rxScen, statsSince>>
txHist == <<cycles, writes, attempts, lastAttempt, txScen, txRestarts, ackLosses,
            tipsValidated, tipsSentOk, tipsDelivered, pulses, windowEdges, sensed,
            rainEv>>
histVars == <<arrivals, rxHist, txHist>>
vars == <<envVars, rxVars, txVars, histVars>>

(***************************************************************************)
(* Receiver.                                                               *)
(***************************************************************************)
NoEvent == [n |-> 0, seq |-> 0, nowMs |-> 0, branch |-> "none",
            synced |-> FALSE, last |-> 0, lastMs |-> 0, lost |-> 0, received |-> 0,
            id |-> 0, boot |-> 0, prevBoot |-> 0, rec |-> ZeroRecord, lostSum |-> 0,
            frames |-> 0]

RxInit ==
  /\ rxPc = "boot"
  /\ rxResults = ZeroRecord
  /\ lastPacketNumber = 0
  /\ receivedPackets = 0
  /\ lostPackets = 0
  /\ isSynced = FALSE
  /\ lastPacketMs = 0
  /\ serialOut = <<>>

\* millis() of the receiver, which boots at time 0
RxMillis == now

\* wrong variant: the successor taken without the 16-bit wrap
isNextNoWrap(current, previous) == current = previous + 1

\* static inline bool isNextModulo(uint16_t current, uint16_t previous)
isNextModulo(current, previous) == current = ToUint16(previous + 1)

\* wrong variant: a small number is never taken for a restart of the sender
looksLikeResetNever(current) == FALSE

\* bool looksLikeReset = (currentPacketNumber <= 5)
\* wrong variants: only a counter of zero is a restart; the threshold excluded

looksLikeResetZeroOnly(current) == current = 0

looksLikeResetBelow(current) == current < ResetThreshold

looksLikeReset(current) == current <= ResetThreshold

\* wrong variant: only the first record after power-up is a sync point
NeedsSyncFirstOnly(synced, nowMs, lastMs) == ~synced

\* !isSynced || (nowMs - lastPacketMs) > 5000UL
\* wrong variant: a gap of exactly the limit already resynchronises
NeedsSyncAtLimit(synced, nowMs, lastMs) ==
  (~synced) \/ ElapsedExceeds(nowMs, lastMs, IdleResyncMs - 1)

NeedsSync(synced, nowMs, lastMs) == (~synced) \/ ElapsedExceeds(nowMs, lastMs, IdleResyncMs)

\* wrong variant: the distance to the previous number, not to the expected one
LossDiffFromPrevious(current, last) == ToUint16(current - last)

\* expected = (uint16_t)(last + 1); diff = (uint16_t)(current - expected)
LossDiff(current, last) == ToUint16(current - ToUint16(last + 1))

\* wrong variant: one loss per gap
AddLostOne(lost, diff) == ToUint16(lost + 1)

\* wrong variant: the counter stops at its maximum
AddLostSaturating(lost, diff) == IF lost + diff >= Two16 THEN Two16 - 1 ELSE lost + diff

\* lostPackets = (uint16_t)(lostPackets + diff)
AddLost(lost, diff) == ToUint16(lost + diff)

\* wrong variant: the restart branch keeps the old arrival time
NewLastPacketMsNotOnReset(branch, nowMs, lastMs) ==
  IF branch = "reset" THEN lastMs ELSE nowMs

\* lastPacketMs = nowMs, assigned in each of the four branches
NewLastPacketMs(branch, nowMs, lastMs) == nowMs

\* lastPacketNumber = currentPacketNumber, assigned in each of the four branches
NewLastPacketNumber(branch, current, last) == current

\* receivedPackets++ on a uint16_t
NextReceived(received) == ToUint16(received + 1)

\* wrong variant: an arrival after a long silence leaves the receiver unsynced
NewSyncedDropsOnIdle(branch, synced) == IF branch = "sync" THEN ~synced ELSE synced

\* isSynced = true in the sync branch; the other branches leave the flag alone
NewSynced(branch, synced) == IF branch = "sync" THEN TRUE ELSE synced

\* the branch of the validator an arrival takes
RxBranch(current, nowMs) ==
  IF NeedsSync(isSynced, nowMs, lastPacketMs) THEN "sync"
  ELSE IF ~isNextModulo(current, lastPacketNumber)
       THEN (IF looksLikeReset(current) THEN "reset" ELSE "loss")
       ELSE "next"

\* wrong variant: high byte first
Int16BytesHighFirst(v) == <<ToUint16(v) \div Two8, ToUint16(v) % Two8>>

\* the bytes of an int16_t in memory, low byte first (little endian)
Int16Bytes(v) == <<ToUint16(v) % Two8, ToUint16(v) \div Two8>>

RECURSIVE RecordBytesFrom(_, _)
RecordBytesFrom(rec, i) ==
  IF i >= length THEN <<>> ELSE Int16Bytes(rec[i]) \o RecordBytesFrom(rec, i + 1)

\* byte *p = (byte*) results; the sizeof(results) bytes in index order
RecordBytes(rec) == RecordBytesFrom(rec, 0)

\* Serial.print('D'); the bytes; Serial.print('E')
Frame(rec) == <<"D">> \o RecordBytes(rec) \o <<"E">>

\* the host's decoder: 16 little-endian int16 values from the 32 payload bytes
DecodeRecord(bytes) ==
  [i \in Fields |-> ToInt16(bytes[2 * i + 1] + Two8 * bytes[2 * i + 2])]

\* the debug lines that follow a frame
DebugText(current, rec) ==
  <<"Packet", current>> \o (IF rec[12] > 0 \/ rec[13] > 0 THEN <<"AirQuality">> ELSE <<>>)

\* the statistics line, printed while receivedPackets % 100 == 0 && receivedPackets > 0
StatsText(received, lost) ==
  IF received % 100 = 0 /\ received > 0 THEN <<"Statistics", received, lost>> ELSE <<>>

\* wrong variant: a record that shows a loss is not forwarded
ForwardedUnlessLoss(branch) == branch # "loss"

\* the frame is written after the sequence check, outside its branches
Forwarded(branch) == TRUE

\* setup(): configure the radio, flush the FIFOs, start listening, delay(500)
RxSetup ==
  /\ rxPc = "boot"
  /\ rxPc' = "loop"
  /\ radioFifo' = <<>>
  /\ now' = now + RxSetupDelayMs
  /\ UNCHANGED envFixed
  /\ UNCHANGED <<rxResults, lastPacketNumber, receivedPackets, lostPackets,
                 isSynced, lastPacketMs, serialOut>>
  /\ UNCHANGED txVars
  /\ UNCHANGED histVars

\* writes skipped between the previous processed record and this one
SkippedBefore(id) == IF rxCount = 0 THEN 0 ELSE id - rxLastId - 1

\* the arrivals of the end-to-end scenario
ScenarioArrivals == <<0, 1, 2, 4>>

RxScenNext(current, gapExceeded) ==
  IF rxScen >= 0 /\ rxScen < Len(ScenarioArrivals)
     /\ current = ScenarioArrivals[rxScen + 1] /\ (rxScen = 0 \/ ~gapExceeded)
  THEN rxScen + 1 ELSE -1

\* loop() when radio.available()
RxLoopRead ==
  /\ rxPc = "loop"
  /\ radioFifo # <<>>
  /\ LET rec == Head(radioFifo).rec
         id == Head(radioFifo).id
         currentPacketNumber == ToUint16(rec[SeqIdx])
         nowMs == RxMillis
         branch == RxBranch(currentPacketNumber, nowMs)
         newLost == IF branch = "loss"
                    THEN AddLost(lostPackets, LossDiff(currentPacketNumber, lastPacketNumber))
                    ELSE lostPackets
         newReceived == NextReceived(receivedPackets)
     IN  /\ radioFifo' = Tail(radioFifo)
         /\ rxResults' = rec
         /\ isSynced' = NewSynced(branch, isSynced)
         /\ lastPacketNumber' = NewLastPacketNumber(branch, currentPacketNumber, lastPacketNumber)
         /\ lastPacketMs' = NewLastPacketMs(branch, nowMs, lastPacketMs)
         /\ lostPackets' = newLost
         /\ receivedPackets' = newReceived
         /\ serialOut' = (IF Forwarded(branch) THEN Frame(rec) ELSE <<>>)
                           \o DebugText(currentPacketNumber, rec)
                           \o StatsText(newReceived, newLost)
         /\ rxEv' = [n |-> rxEv.n + 1, seq |-> currentPacketNumber, nowMs |-> nowMs,
                     branch |-> branch, synced |-> isSynced, last |-> lastPacketNumber,
                     lastMs |-> lastPacketMs, lost |-> lostPackets,
                     received |-> receivedPackets, id |-> id, rec |-> rec,
                     boot |-> Head(radioFifo).boot, prevBoot |-> rxEv.boot,
                     lostSum |-> rxEv.lostSum
                                   + (IF branch = "loss"
                                      THEN LossDiff(currentPacketNumber, lastPacketNumber)
                                      ELSE 0),
                     frames |-> IF Forwarded(branch) THEN rxEv.frames + 1
                                ELSE rxEv.frames]
         /\ IF FromSender
            THEN /\ rxFirstId' = IF rxCount = 0 THEN id ELSE rxFirstId
                 /\ rxLastId' = id
                 /\ rxCount' = rxCount + 1
                 /\ rxUncounted' = IF branch \in {"sync", "reset"}
                                   THEN rxUncounted + SkippedBefore(id) ELSE rxUncounted
                 /\ rxScen' = RxScenNext(currentPacketNumber,
                                         ElapsedExceeds(nowMs, lastPacketMs, 5000))
            ELSE UNCHANGED <<rxFirstId, rxLastId, rxCount, rxUncounted, rxScen>>
         /\ statsSince' = IF StatsText(newReceived, newLost) # <<>> THEN 1 ELSE 0
  /\ UNCHANGED <<now, envFixed, rxPc, arrivals>>
  /\ UNCHANGED txVars
  /\ UNCHANGED txHist

\* loop() when nothing is available: only the statistics check runs
RxLoopIdle ==
  /\ rxPc = "loop"
  /\ radioFifo = <<>>
  /\ serialOut' = IF StatsText(receivedPackets, lostPackets) # <<>>
                  THEN StatsText(receivedPackets, lostPackets) ELSE serialOut
  /\ statsSince' = IF StatsText(receivedPackets, lostPackets) # <<>>
                      /\ statsSince < MaxStatsSeen
                   THEN statsSince + 1 ELSE statsSince
  /\ UNCHANGED <<rxPc, rxResults, lastPacketNumber, receivedPackets, lostPackets,
                 isSynced, lastPacketMs>>
  /\ UNCHANGED envVars
  /\ UNCHANGED txVars
  /\ UNCHANGED <<arrivals, rxEv, rxFirstId, rxLastId, rxCount, rxUncounted, rxScen,
                 txHist>>

\* void loop() of the receiver
RxLoop == RxLoopRead \/ RxLoopIdle

(***************************************************************************)
(* Sender.                                                                 *)
(***************************************************************************)
\* every sensor absent or silent: the record's sensor fields are 0
QuietSensors ==
  [temp |-> 0, pressure |-> 0, humidity |-> 0, sky |-> 0, box |-> 0, lux |-> 0,
   ready |-> FALSE, co2 |-> 0, tvoc |-> 0, baseline |-> 0, analog |-> 0, digital |-> TRUE]

TxInit ==
  /\ txPc = "boot"
  /\ txBootAt = 0
  /\ bme_sensor_available = FALSE
  /\ mlx_sensor_available = FALSE
  /\ light_sensor_available = FALSE
  /\ ccs811_sensor_available = FALSE
  /\ radio_available = FALSE
  /\ InterruptCounter = 0
  /\ intAttached = FALSE
  /\ wind_revolutions_this_cycle = 0
  /\ firstLoop = TRUE
  /\ lastState = FALSE
  /\ lastChanged = 0
  /\ accumulated_rain_tips = 0
  /\ rain_data_pending = FALSE
  /\ results = ZeroRecord
  /\ packetNumber = 0
  /\ successfulTransmissions = 0
  /\ failedTransmissions = 0
  /\ time_stamp = 0
  /\ txSerial = <<>>

\* the hardware reset: every global back to its initialiser, boot at time t
TxReset(t) ==
  /\ txPc' = "boot"
  /\ txBootAt' = t
  /\ bme_sensor_available' = FALSE
  /\ mlx_sensor_available' = FALSE
  /\ light_sensor_available' = FALSE
  /\ ccs811_sensor_available' = FALSE
  /\ radio_available' = FALSE
  /\ InterruptCounter' = 0
  /\ intAttached' = FALSE
  /\ wind_revolutions_this_cycle' = 0
  /\ firstLoop' = TRUE
  /\ lastState' = FALSE
  /\ lastChanged' = 0
  /\ accumulated_rain_tips' = 0
  /\ rain_data_pending' = FALSE
  /\ results' = ZeroRecord
  /\ packetNumber' = 0
  /\ successfulTransmissions' = 0
  /\ failedTransmissions' = 0
  /\ time_stamp' = 0

\* millis() of the sender at wall clock t
TxMillis(t) == t - txBootAt

\* checkAutoReset(): millis() > RESET_INTERVAL
ResetDue(ms) == ms > RESET_INTERVAL

\* setup() up to initializeTSL2591(): the probes of the three optional sensors
TxSetupSensors(probe) ==
  /\ txPc = "boot"
  /\ txPc' = "ccs_init"
  /\ bme_sensor_available' = probe.bme
  /\ mlx_sensor_available' = probe.mlx
  /\ light_sensor_available' = probe.light
  /\ txSerial' = <<"Starting">>
  /\ UNCHANGED <<txBootAt, ccs811_sensor_available, radio_available, InterruptCounter,
                 intAttached, wind_revolutions_this_cycle, firstLoop, lastState,
                 lastChanged, accumulated_rain_tips, rain_data_pending, results,
                 packetNumber, successfulTransmissions, failedTransmissions, time_stamp>>
  /\ UNCHANGED envVars
  /\ UNCHANGED rxVars
  /\ UNCHANGED histVars

\* initializeCCS811(): while (ccs811.begin() != 0) delay(1000); then
\* initializeRadio() and the end of setup(), dur ms after the successful begin()
TxInitCCS811(ok, radioOk, dur) ==
  /\ txPc = "ccs_init"
  /\ ok => ccsPresent
  /\ ~ok => TxMillis(now) < MaxSetupWait
  /\ ResetDue(dur + WIND_MEASUREMENT_TIME) => txRestarts < MaxRestarts
  /\ IF ok
     THEN /\ ccs811_sensor_available' = TRUE
          /\ radio_available' = radioOk
          /\ txPc' = "read"
          /\ now' = now + dur
          /\ txSerial' = <<"initialization complete">>
     ELSE /\ now' = now + 1000
          /\ txSerial' = <<"failed to init chip">>
          /\ UNCHANGED <<ccs811_sensor_available, radio_available, txPc>>
  /\ UNCHANGED <<txBootAt, bme_sensor_available, mlx_sensor_available,
                 light_sensor_available, InterruptCounter, intAttached,
                 wind_revolutions_this_cycle, firstLoop, lastState, lastChanged,
                 accumulated_rain_tips, rain_data_pending, results, packetNumber,
                 successfulTransmissions, failedTransmissions, time_stamp>>
  /\ UNCHANGED <<envFixed, radioFifo>>
  /\ UNCHANGED rxVars
  /\ UNCHANGED histVars

Min(a, b) == IF a < b THEN a ELSE b

\* readBME280Data(): in.temp, in.pressure, in.humidity are the values the casts
\* (int16_t)(reading * scale) produce
readBME280Data(res, in) ==
  IF bme_sensor_available
  THEN [res EXCEPT ![1] = in.temp, ![2] = in.pressure, ![3] = in.humidity]
  ELSE [res EXCEPT ![1] = 0, ![2] = 0, ![3] = 0]

\* readMLX90614Data()
readMLX90614Data(res, in) ==
  IF mlx_sensor_available
  THEN [res EXCEPT ![8] = in.sky, ![9] = in.box]
  ELSE [res EXCEPT ![8] = 0, ![9] = 0]

\* readTSL2591Data(): results[4] = (int16_t)min(lux_raw, 65535UL)
readTSL2591Data(res, in) ==
  IF light_sensor_available
  THEN [res EXCEPT ![4] = ToInt16(Min(in.lux, Two16 - 1))]
  ELSE [res EXCEPT ![4] = 0]

\* wrong variant: without new data the previous values stay in the record
readCCS811DataKeep(res, in) ==
  IF ccs811_sensor_available /\ in.ready
  THEN [res EXCEPT ![12] = ToInt16(in.co2), ![13] = ToInt16(in.tvoc),
                   ![14] = ToInt16(in.baseline)]
  ELSE res

\* readCCS811Data()
readCCS811Data(res, in) ==
  IF ccs811_sensor_available /\ in.ready
  THEN [res EXCEPT ![12] = ToInt16(in.co2), ![13] = ToInt16(in.tvoc),
                   ![14] = ToInt16(in.baseline)]
  ELSE [res EXCEPT ![12] = 0, ![13] = 0, ![14] = 0]

\* readRainDropData(): digital LOW means rain
readRainDropData(res, in) ==
  [res EXCEPT ![10] = IF ~in.digital THEN 1 ELSE 0, ![11] = ToInt16(in.analog)]

\* wrong variant: a change exactly 250 ms after the last one is accepted
DebouncePassedAtLimit(ms, changed) == ElapsedExceeds(ms, changed, DebounceMs - 1)

\* the debounce test of readRainReedData(): (millis() - lastChanged) > 250
DebouncePassed(ms, changed) == ElapsedExceeds(ms, changed, DebounceMs)

\* wrong variant: every accepted change counts
IsTipAnyChange(cur, last) == cur # last

\* the edge readRainReedData() counts: currentState == HIGH && lastState == LOW
IsTip(cur, last) == cur /\ ~last

\* wrong variant: lastState follows the level before the debounce test
NewLastStateAlways(accepted, cur, last) == cur

\* lastState = currentState, inside the debounce test only
NewLastState(accepted, cur, last) == IF accepted THEN cur ELSE last

\* wrong variant: the first tick compares with the initial lastState
LastStateIgnoringFirst(first, cur, last) == last

\* if (firstLoop) lastState = currentState
LastStateAtTick(first, cur, last) == IF first THEN cur ELSE last

\* readRainReedData() at millis() = ms with the reed pin at level cur (TRUE = HIGH):
\* the new values of its globals and whether a tip was counted
RainStep(cur, ms) ==
  LET last == LastStateAtTick(firstLoop, cur, lastState)
      accepted == (cur # last) /\ DebouncePassed(ms, lastChanged)
      tipped == accepted /\ IsTip(cur, last)
  IN  [lastState |-> NewLastState(accepted, cur, last),
       lastChanged |-> IF accepted THEN ms ELSE lastChanged,
       tips |-> IF tipped THEN ToUint16(accumulated_rain_tips + 1)
                ELSE accumulated_rain_tips,
       pending |-> IF tipped THEN TRUE ELSE rain_data_pending,
       tipped |-> tipped]

NoRise == [at |-> 0, before |-> 0, counted |-> FALSE, lastBefore |-> FALSE,
           changedBefore |-> 0]

NoTicks == [ticks |-> 0, level |-> FALSE, at |-> 0, rises |-> 0,
            rise |-> NoRise, prevRise |-> NoRise]

\* the history of sampling ticks after a tick at millis() = ms that read level and
\* had the effect r; the rising edges are followed when the rain switch is sampled
\* on its own (traffic = "rain")
RainEvNext(level, ms, r) ==
  LET seenRise == traffic = "rain" /\ rainEv.ticks > 0 /\ level /\ ~rainEv.level
  IN  [ticks |-> rainEv.ticks + 1,
       level |-> level,
       at |-> IF traffic = "rain" THEN ms ELSE 0,
       rises |-> IF seenRise THEN Min(rainEv.rises + 1, 2) ELSE rainEv.rises,
       rise |-> IF seenRise
                THEN [at |-> ms, before |-> accumulated_rain_tips, counted |-> r.tipped,
                      lastBefore |-> lastState, changedBefore |-> lastChanged]
                ELSE rainEv.rise,
       prevRise |-> IF seenRise THEN rainEv.rise ELSE rainEv.prevRise]

\* wrong variant: the record carries this cycle's tips only
RainFieldThisCycle(tips, tipped) == IF tipped THEN 1 ELSE 0

\* results[5] = (int16_t)accumulated_rain_tips
RainField(tips, tipped) == ToInt16(tips)

\* calls of readRainReedData() a run may take: the long run goes past the 65536th
\* tip, one tip for every two calls after the first
TickBound ==
  IF traffic = "rain" THEN MaxRainTicks ELSE 2 * Two16 + 1 + MaxWrapTail

\* void readRainReedData(), called on its own dt ms after the previous call
readRainReedData(level, dt) ==
  /\ traffic \in {"rain", "rainlong"}
  /\ rainEv.ticks < TickBound
  /\ now' = now + dt
  /\ LET r == RainStep(level, TxMillis(now + dt))
     IN  /\ firstLoop' = FALSE
         /\ lastState' = r.lastState
         /\ lastChanged' = r.lastChanged
         /\ accumulated_rain_tips' = r.tips
         /\ rain_data_pending' = r.pending
         /\ tipsValidated' = IF r.tipped THEN tipsValidated + 1 ELSE tipsValidated
         /\ results' = [results EXCEPT ![5] = RainField(r.tips, r.tipped)]
         /\ txSerial' = IF r.tipped THEN <<"Rain tip detected", r.tips>> ELSE <<>>
         /\ rainEv' = RainEvNext(level, TxMillis(now + dt), r)
  /\ UNCHANGED <<txPc, txBootAt, bme_sensor_available, mlx_sensor_available,
                 light_sensor_available, ccs811_sensor_available, radio_available,
                 InterruptCounter, intAttached, wind_revolutions_this_cycle,
                 packetNumber, successfulTransmissions, failedTransmissions, time_stamp>>
  /\ UNCHANGED <<envFixed, radioFifo>>
  /\ UNCHANGED rxVars
  /\ UNCHANGED <<arrivals, rxHist, cycles, writes, attempts, lastAttempt, txScen,
                 txRestarts, ackLosses, tipsSentOk, tipsDelivered, pulses, windowEdges,
                 sensed>>

\* (int16_t) of a float: the value if it fits; otherwise the conversion is
\* undefined and the build may wrap or saturate
FloatToInt16(x) ==
  IF x >= -(Two16 \div 2) /\ x < Two16 \div 2 THEN {x}
  ELSE {ToInt16(x), (Two16 \div 2) - 1, -(Two16 \div 2)}

\* sender cycles a run may take
CycleBound ==
  IF traffic = "sender" THEN MaxCycles
  ELSE IF traffic = "restart" THEN MaxRestartCycles
  ELSE IF resetWired THEN MaxTxCycles
  ELSE Two16 + MaxWrapTail

\* loop() from time_stamp++ to readRainDropData(); ts is results[0]
TxRead(in, level, ts) ==
  /\ txPc = "read"
  /\ cycles < CycleBound
  /\ ts \in FloatToInt16(time_stamp + 1)
  /\ LET r == RainStep(level, TxMillis(now))
         r0 == [results EXCEPT ![0] = ts]
         r1 == readCCS811Data(readTSL2591Data(readMLX90614Data(readBME280Data(r0, in), in), in), in)
         r2 == [r1 EXCEPT ![5] = RainField(r.tips, r.tipped)]
     IN  /\ r.tipped => tipsValidated < MaxTips
         /\ time_stamp' = time_stamp + 1
         /\ firstLoop' = FALSE
         /\ lastState' = r.lastState
         /\ lastChanged' = r.lastChanged
         /\ accumulated_rain_tips' = r.tips
         /\ rain_data_pending' = r.pending
         /\ tipsValidated' = IF r.tipped THEN tipsValidated + 1 ELSE tipsValidated
         /\ results' = readRainDropData(r2, in)
         /\ txSerial' = IF r.tipped THEN <<"Rain tip detected", r.tips>> ELSE <<>>
         /\ rainEv' = RainEvNext(level, TxMillis(now), r)
         /\ sensed' = in
  /\ txPc' = "anemo"
  /\ cycles' = cycles + 1
  /\ UNCHANGED <<txBootAt, bme_sensor_available, mlx_sensor_available,
                 light_sensor_available, ccs811_sensor_available, radio_available,
                 InterruptCounter, intAttached, wind_revolutions_this_cycle,
                 packetNumber, successfulTransmissions, failedTransmissions>>
  /\ UNCHANGED envVars
  /\ UNCHANGED rxVars
  /\ UNCHANGED <<arrivals, rxHist, writes, attempts, lastAttempt, txScen, txRestarts,
                 ackLosses, tipsSentOk, tipsDelivered, pulses, windowEdges>>

\* wrong variant: the handler stays attached after the window
AttachedAfterNoDetach(call) == TRUE

\* wrong variant: the two calls are exchanged
AttachedAfterSwapped(call) == call = "detachInterrupt"

\* whether countup() is attached after attachInterrupt() or detachInterrupt()
AttachedAfter(call) == call = "attachInterrupt"

\* readAnemometerData(): InterruptCounter = 0; attachInterrupt(...)
AnemoOpen ==
  /\ txPc = "anemo"
  /\ txPc' = "window"
  /\ InterruptCounter' = 0
  /\ intAttached' = AttachedAfter("attachInterrupt")
  /\ UNCHANGED <<txBootAt, bme_sensor_available, mlx_sensor_available,
                 light_sensor_available, ccs811_sensor_available, radio_available,
                 wind_revolutions_this_cycle, firstLoop, lastState, lastChanged,
                 accumulated_rain_tips, rain_data_pending, results, packetNumber,
                 successfulTransmissions, failedTransmissions, time_stamp, txSerial>>
  /\ windowEdges' = 0
  /\ UNCHANGED envVars
  /\ UNCHANGED rxVars
  /\ UNCHANGED <<arrivals, rxHist, cycles, writes, attempts, lastAttempt, txScen,
                 txRestarts, ackLosses, tipsValidated, tipsSentOk, tipsDelivered,
                 pulses, sensed, rainEv>>

\* a rising edge of the anemometer while the interrupt is detached: no handler runs
EdgeWhileDetached ==
  /\ txPc \in {"read", "anemo", "send", "check"}
  /\ ~intAttached
  /\ pulses < MaxPulses
  /\ pulses' = pulses + 1
  /\ UNCHANGED envVars
  /\ UNCHANGED rxVars
  /\ UNCHANGED txVars
  /\ UNCHANGED <<arrivals, rxHist, cycles, writes, attempts, lastAttempt, txScen,
                 txRestarts, ackLosses, tipsValidated, tipsSentOk, tipsDelivered,
                 windowEdges, sensed, rainEv>>

\* void countup(): the interrupt handler, on a rising edge while attached
countup ==
  /\ intAttached
  /\ pulses < MaxPulses
  /\ InterruptCounter' = InterruptCounter + 1
  /\ pulses' = pulses + 1
  /\ windowEdges' = windowEdges + 1
  /\ UNCHANGED <<txPc, txBootAt, bme_sensor_available, mlx_sensor_available,
                 light_sensor_available, ccs811_sensor_available, radio_available,
                 intAttached, wind_revolutions_this_cycle, firstLoop, lastState,
                 lastChanged, accumulated_rain_tips, rain_data_pending, results,
                 packetNumber, successfulTransmissions, failedTransmissions,
                 time_stamp, txSerial>>
  /\ UNCHANGED envVars
  /\ UNCHANGED rxVars
  /\ UNCHANGED <<arrivals, rxHist, cycles, writes, attempts, lastAttempt, txScen,
                 txRestarts, ackLosses, tipsValidated, tipsSentOk, tipsDelivered, sensed,
                 rainEv>>

\* what the main context can read from InterruptCounter after the window: the
\* counter is a plain int, not volatile, written by the handler; the build may
\* load it from memory or reuse the 0 it stored before attachInterrupt()
CounterReads == {InterruptCounter, 0}

\* readAnemometerData(): delay(WIND_MEASUREMENT_TIME); detachInterrupt(...);
\* wind_revolutions_this_cycle = InterruptCounter; results[6] = ...
AnemoClose(seen) ==
  /\ txPc = "window"
  /\ seen \in CounterReads
  /\ txPc' = "send"
  /\ now' = now + WIND_MEASUREMENT_TIME
  /\ intAttached' = AttachedAfter("detachInterrupt")
  /\ wind_revolutions_this_cycle' = ToUint16(seen)
  /\ results' = [results EXCEPT ![6] = ToInt16(ToUint16(seen))]
  /\ UNCHANGED <<txBootAt, bme_sensor_available, mlx_sensor_available,
                 light_sensor_available, ccs811_sensor_available, radio_available,
                 InterruptCounter, firstLoop, lastState, lastChanged,
                 accumulated_rain_tips, rain_data_pending, packetNumber,
                 successfulTransmissions, failedTransmissions, time_stamp, txSerial>>
  /\ UNCHANGED <<envFixed, radioFifo>>
  /\ UNCHANGED rxVars
  /\ UNCHANGED histVars

\* the receiver's radio can take a payload and acknowledge it
CanDeliver == traffic = "none" \/ (rxPc = "loop" /\ Len(radioFifo) < MaxFifo)

\* radio.write() returned true
WriteSucceeded(outcome) == outcome = "ok"

\* the payload reached the receiver's radio ("acklost": it did, the acknowledgement
\* did not come back, and radio.write() returns false)
WriteDelivered(outcome) == outcome \in {"ok", "acklost"}

\* wrong variant: cleared after every write
TipsAfterSendAlways(success, tips, pending) == IF pending THEN 0 ELSE tips

\* wrong variant: a failed write drops the pending tips
TipsAfterSendDropOnFailure(success, tips, pending) == IF pending THEN (IF success THEN 0 ELSE tips - 1) ELSE tips

\* accumulated_rain_tips after transmitData(): cleared if the write succeeded and
\* rain data was pending
TipsAfterSend(success, tips, pending) == IF success /\ pending THEN 0 ELSE tips

\* wrong variant: the flag stays set after a successful write
PendingAfterSendKeep(success, pending) == pending

\* rain_data_pending after transmitData()
PendingAfterSend(success, pending) == IF success THEN FALSE ELSE pending

\* wrong variant: the counter names deliveries, not attempts
NextPacketNumberOnSuccess(success, p) == IF success THEN ToUint16(p + 1) ELSE p

\* packetNumber++ on a uint16_t, after the write whatever its result
NextPacketNumber(success, p) == ToUint16(p + 1)

\* wrong variant: both counters move on every write
CountAlways(cond, n) == ToUint16(n + 1)

\* successfulTransmissions++ / failedTransmissions++
CountIf(cond, n) == IF cond THEN ToUint16(n + 1) ELSE n

\* wrong variant: the report follows the first attempt of every hundred
StatsDueFromFirst(p) == p % StatsEvery = 1

\* if (packetNumber % 100 == 0) printTransmissionStats(), after packetNumber++
StatsDue(p) == p % StatsEvery = 0

\* the outcomes of the writes of the end-to-end scenario: three delivered, one lost
TxScenNext(outcome) ==
  IF txScen >= 0 /\ txScen < 3 /\ outcome = "ok" THEN txScen + 1
  ELSE IF txScen = 3 /\ outcome = "lost" THEN 4
  ELSE IF txScen = 4 THEN 5
  ELSE -1

NoAttempt == [n |-> 0, seq |-> 0, tips |-> 0, ok |-> FALSE, delivered |-> FALSE,
              accBefore |-> 0, accAfter |-> 0, validated |-> 0,
              prevSeq |-> 0, prevTips |-> 0, prevOk |-> FALSE, prevValidated |-> 0]

\* wrong variant: a counter above 32767 is stored as 32767
SeqFieldClamped(p) == IF p >= Two16 \div 2 THEN Two16 \div 2 - 1 ELSE p

\* results[7] = (int16_t)packetNumber
SeqField(p) == ToInt16(p)

\* wrong variant: the write is attempted whatever initializeRadio() found
RadioSendsAlways(available) == TRUE

\* if (radio_available) { ... } else { "Radio not available, skipping transmission" }
RadioSends(available) == available

\* loop() from results[7] = packetNumber to printDebugInfo(); the write and the
\* prints take d ms
TxTransmit(outcome, d) ==
  /\ txPc = "send"
  /\ txPc' = "check"
  /\ now' = now + d
  /\ LET rec == [results EXCEPT ![SeqIdx] = SeqField(packetNumber), ![15] = 0]
         success == WriteSucceeded(outcome)
         delivered == WriteDelivered(outcome)
         newTips == TipsAfterSend(success, accumulated_rain_tips, rain_data_pending)
         newPacket == NextPacketNumber(success, packetNumber)
         stats == IF StatsDue(newPacket)
                  THEN <<"Transmission stats", CountIf(success, successfulTransmissions),
                         CountIf(~success, failedTransmissions)>>
                  ELSE <<>>
     IN  /\ results' = rec
         /\ IF RadioSends(radio_available)
            THEN /\ delivered => CanDeliver
                 /\ (delivered /\ ~success) => ackLosses < MaxAckLosses
                 /\ radioFifo' = IF delivered /\ FromSender
                                 THEN Append(radioFifo, [rec |-> rec, id |-> writes + 1,
                                                         boot |-> txRestarts])
                                 ELSE radioFifo
                 /\ successfulTransmissions' = CountIf(success, successfulTransmissions)
                 /\ failedTransmissions' = CountIf(~success, failedTransmissions)
                 /\ accumulated_rain_tips' = newTips
                 /\ rain_data_pending' = PendingAfterSend(success, rain_data_pending)
                 /\ packetNumber' = newPacket
                 /\ txSerial' = <<IF success THEN "transmitted" ELSE "Failed to transmit",
                                 packetNumber>> \o stats
                 /\ writes' = writes + 1
                 /\ attempts' = attempts + 1
                 /\ arrivals' = IF delivered THEN arrivals + 1 ELSE arrivals
                 /\ ackLosses' = IF delivered /\ ~success THEN ackLosses + 1 ELSE ackLosses
                 /\ tipsSentOk' = IF success THEN tipsSentOk + rec[5] ELSE tipsSentOk
                 /\ tipsDelivered' = IF delivered THEN tipsDelivered + rec[5] ELSE tipsDelivered
                 /\ txScen' = TxScenNext(outcome)
                 /\ lastAttempt' = [n |-> attempts + 1, seq |-> ToUint16(rec[SeqIdx]),
                                    tips |-> rec[5], ok |-> success, delivered |-> delivered,
                                    accBefore |-> accumulated_rain_tips,
                                    accAfter |-> newTips, validated |-> tipsValidated,
                                    prevSeq |-> lastAttempt.seq, prevTips |-> lastAttempt.tips,
                                    prevOk |-> lastAttempt.ok,
                                    prevValidated |-> lastAttempt.validated]
            ELSE /\ outcome = "lost"
                 /\ txSerial' = <<"Radio not available">>
                 /\ UNCHANGED <<radioFifo, successfulTransmissions, failedTransmissions,
                                accumulated_rain_tips, rain_data_pending, packetNumber,
                                writes, attempts, arrivals, ackLosses, tipsSentOk,
                                tipsDelivered, txScen, lastAttempt>>
  /\ UNCHANGED <<txBootAt, bme_sensor_available, mlx_sensor_available,
                 light_sensor_available, ccs811_sensor_available, radio_available,
                 InterruptCounter, intAttached, wind_revolutions_this_cycle,
                 firstLoop, lastState, lastChanged, time_stamp>>
  /\ UNCHANGED envFixed
  /\ UNCHANGED rxVars
  /\ UNCHANGED <<rxHist, cycles, txRestarts, tipsValidated, pulses, windowEdges,
                 sensed, rainEv>>

\* wrong variant: the reset waits until no rain tips are pending
ResetHeldWhilePending(due, wired, pending) == due /\ wired /\ ~pending

\* whether checkAutoReset() resets the board: the test looks at millis() only, and
\* the pin acts when it is wired
ResetActs(due, wired, pending) == due /\ wired

\* checkAutoReset(): digitalWrite(RESET_PIN, LOW) resets the board when the uptime
\* exceeds RESET_INTERVAL
TxCheckAutoReset ==
  /\ txPc = "check"
  /\ IF ResetActs(ResetDue(TxMillis(now)), resetWired, rain_data_pending)
     THEN /\ TxReset(now)
          /\ txSerial' = <<"Auto-reset triggered">>
          /\ txRestarts' = txRestarts + 1
          /\ attempts' = 0
          /\ lastAttempt' = NoAttempt
          /\ txScen' = -1
          /\ rainEv' = NoTicks
          /\ sensed' = QuietSensors
     ELSE /\ txPc' = "read"
          /\ txSerial' = IF ResetDue(TxMillis(now))
                         THEN <<"Auto-reset triggered">> ELSE txSerial
          /\ UNCHANGED <<txBootAt, bme_sensor_available, mlx_sensor_available,
                         light_sensor_available, ccs811_sensor_available, radio_available,
                         InterruptCounter, intAttached, wind_revolutions_this_cycle,
                         firstLoop, lastState, lastChanged, accumulated_rain_tips,
                         rain_data_pending, results, packetNumber,
                         successfulTransmissions, failedTransmissions, time_stamp>>
          /\ UNCHANGED <<txRestarts, attempts, lastAttempt, txScen, sensed, rainEv>>
  /\ UNCHANGED envVars
  /\ UNCHANGED rxVars
  /\ UNCHANGED <<arrivals, rxHist, cycles, writes, ackLosses, tipsValidated,
                 tipsSentOk, tipsDelivered, pulses, windowEdges>>

(***************************************************************************)
(* The radio as the receiver sees it: any 32-byte payload may arrive.      *)
(***************************************************************************)
\* packet numbers fed to the receiver alone
SeqSamples == {0, ResetThreshold, ResetThreshold + 1, ResetThreshold + 51, Two16 - 1}

\* time between two arrivals at the receiver's radio
GapSamples == {IdleResyncMs, IdleResyncMs + 1}

RecordWithSeq(s) == [ZeroRecord EXCEPT ![SeqIdx] = SeqField(s)]

\* the radio receives a payload (radio.available() becomes true)
RadioArrive(rec, d) ==
  /\ rxPc = "loop"
  /\ traffic = "any"
  /\ arrivals < MaxArrivals
  /\ Len(radioFifo) < MaxFifo
  /\ radioFifo' = Append(radioFifo, [rec |-> rec, id |-> arrivals + 1, boot |-> 0])
  /\ now' = now + d
  /\ arrivals' = arrivals + 1
  /\ UNCHANGED envFixed
  /\ UNCHANGED rxVars
  /\ UNCHANGED txVars
  /\ UNCHANGED <<rxHist, txHist>>

\* values of one field of a record: the ends of the int16_t range and the byte borders
FieldSamples == {-(Two16 \div 2), -Two8, -1, 0, 1, Two8 - 1, Two8, (Two16 \div 2) - 1}

\* the record with v in field i and w in every other field
RecordWithField(i, v, w) == [j \in Fields |-> IF j = i THEN v ELSE w]

\* the radio receives a record with arbitrary field values, one per sender cycle
FieldArrive(i, v, w) ==
  /\ rxPc = "loop"
  /\ traffic = "fields"
  /\ arrivals < MaxFrames
  /\ radioFifo = <<>>
  /\ radioFifo' = <<[rec |-> RecordWithField(i, v, w), id |-> arrivals + 1, boot |-> 0]>>
  /\ now' = now + WIND_MEASUREMENT_TIME
  /\ arrivals' = arrivals + 1
  /\ UNCHANGED envFixed
  /\ UNCHANGED rxVars
  /\ UNCHANGED txVars
  /\ UNCHANGED <<rxHist, txHist>>

\* a sender that never loses a record: packet numbers 0, 1, 2, ... one per cycle,
\* each read before the next arrives
StreamArrive ==
  /\ rxPc = "loop"
  /\ traffic = "stream"
  /\ arrivals < Two16 + MaxWrapTail
  /\ radioFifo = <<>>
  /\ radioFifo' = <<[rec |-> RecordWithSeq(ToUint16(arrivals)), id |-> arrivals + 1,
                     boot |-> 0]>>
  /\ now' = now + WIND_MEASUREMENT_TIME
  /\ arrivals' = arrivals + 1
  /\ UNCHANGED envFixed
  /\ UNCHANGED rxVars
  /\ UNCHANGED txVars
  /\ UNCHANGED <<rxHist, txHist>>

(***************************************************************************)
(* Specifications.                                                         *)
(***************************************************************************)
EnvInit ==
  /\ now = 0
  /\ radioFifo = <<>>
  /\ arrivals = 0
  /\ rxEv = NoEvent
  /\ rxFirstId = 0
  /\ rxLastId = 0
  /\ rxCount = 0
  /\ rxUncounted = 0
  /\ rxScen = 0
  /\ statsSince = 0
  /\ cycles = 0
  /\ writes = 0
  /\ attempts = 0
  /\ lastAttempt = NoAttempt
  /\ txScen = 0
  /\ txRestarts = 0
  /\ ackLosses = 0
  /\ tipsValidated = 0
  /\ tipsSentOk = 0
  /\ tipsDelivered = 0
  /\ pulses = 0
  /\ windowEdges = 0
  /\ rainEv = NoTicks
  /\ sensed = QuietSensors

NoSensors == [bme |-> FALSE, mlx |-> FALSE, light |-> FALSE]

\* time from the CCS811's successful begin() to the first loop(): short, or long
\* enough for the uptime reset to be due at the end of the first cycle
SetupDurations == {2 * WIND_MEASUREMENT_TIME, RESET_INTERVAL - WIND_MEASUREMENT_TIME}

\* time radio.write() and the prints of a cycle take
SendDurations == {10}

Outcomes == {"ok", "lost", "acklost"}

Init == EnvInit /\ RxInit /\ TxInit /\ traffic = "sender" /\ resetWired = TRUE /\ ccsPresent = TRUE

\* the receiver has read everything its radio holds
ReceiverIdle == rxPc = "loop" /\ radioFifo = <<>>

Next ==
  \/ RxSetup
  \/ RxLoop
  \/ ReceiverIdle /\ TxSetupSensors(NoSensors)
  \/ \E radioOk \in BOOLEAN, dur \in SetupDurations : TxInitCCS811(TRUE, radioOk, dur)
  \/ \E level \in BOOLEAN, ts \in FloatToInt16(time_stamp + 1) :
        TxRead(QuietSensors, level, ts)
  \/ AnemoOpen
  \/ \E seen \in CounterReads : ReceiverIdle /\ AnemoClose(seen)
  \/ \E outcome \in Outcomes, d \in SendDurations : TxTransmit(outcome, d)
  \/ TxCheckAutoReset

Spec == Init /\ [][Next]_vars

InitTx == EnvInit /\ RxInit /\ TxInit /\ traffic = "none" /\ resetWired = TRUE /\ ccsPresent = TRUE

NextTx ==
  \/ TxSetupSensors(NoSensors)
  \/ \E radioOk \in BOOLEAN, dur \in SetupDurations : TxInitCCS811(TRUE, radioOk, dur)
  \/ \E level \in BOOLEAN, ts \in FloatToInt16(time_stamp + 1) :
        TxRead(QuietSensors, level, ts)
  \/ AnemoOpen
  \/ countup
  \/ EdgeWhileDetached
  \/ \E seen \in CounterReads : AnemoClose(seen)
  \/ \E outcome \in Outcomes, d \in SendDurations : TxTransmit(outcome, d)
  \/ TxCheckAutoReset

SpecTx == InitTx /\ [][NextTx]_vars

\* loop() never blocks: delay() and radio.write() return, so the sender keeps taking
\* steps
SpecTxLive == SpecTx /\ WF_vars(NextTx)

\* the sender alone on a board whose RESET_PIN is not wired to the reset input, left
\* running: no rain, no wind, every third write fails
InitTxLong == EnvInit /\ RxInit /\ TxInit /\ traffic = "none" /\ resetWired = FALSE /\ ccsPresent = TRUE

LongOutcome == IF attempts % 3 = 1 THEN "lost" ELSE "ok"

NextTxLong ==
  \/ TxSetupSensors(NoSensors)
  \/ TxInitCCS811(TRUE, TRUE, 2 * WIND_MEASUREMENT_TIME)
  \/ \E ts \in FloatToInt16(time_stamp + 1) : TxRead(QuietSensors, FALSE, ts)
  \/ AnemoOpen
  \/ \E seen \in CounterReads : AnemoClose(seen)
  \/ \E d \in SendDurations : TxTransmit(LongOutcome, d)
  \/ TxCheckAutoReset

SpecTxLong == InitTxLong /\ [][NextTxLong]_vars

\* raw illuminance readings (uint32_t) and gas readings (uint16_t) around the
\* signed 16-bit limit
LuxSamples == {0, 300, Two16 \div 2 - 1, Two16 \div 2, Two16 - 1, Two16 + 4464}

GasSamples == {400, Two16 \div 2 - 1, Two16 \div 2, Two16 - 1}

SenseInputs ==
  {[QuietSensors EXCEPT !.lux = l, !.ready = TRUE, !.co2 = g, !.tvoc = g, !.baseline = g] :
     l \in LuxSamples, g \in GasSamples}

LightOnly == [bme |-> FALSE, mlx |-> FALSE, light |-> TRUE]

\* the sender alone with the light sensor and the CCS811 answering
InitSense == EnvInit /\ RxInit /\ TxInit /\ traffic = "none" /\ resetWired = TRUE /\ ccsPresent = TRUE

NextSense ==
  \/ TxSetupSensors(LightOnly)
  \/ TxInitCCS811(TRUE, TRUE, 2 * WIND_MEASUREMENT_TIME)
  \/ \E in \in SenseInputs, ts \in FloatToInt16(time_stamp + 1) : TxRead(in, FALSE, ts)
  \/ AnemoOpen
  \/ \E seen \in CounterReads : AnemoClose(seen)
  \/ \E d \in SendDurations : TxTransmit("ok", d)
  \/ TxCheckAutoReset

SpecSense == InitSense /\ [][NextSense]_vars

\* the outcomes of the three probes of setup()
Probes == [bme : BOOLEAN, mlx : BOOLEAN, light : BOOLEAN]

\* readings that are all different from the defaults; the CCS811 has new data or not
BusyInputs ==
  {[temp |-> 2345, pressure |-> 10132, humidity |-> 4567, sky |-> -510, box |-> 2100,
    lux |-> 300, ready |-> r, co2 |-> 400, tvoc |-> 12, baseline |-> 7, analog |-> 512,
    digital |-> FALSE] : r \in BOOLEAN}

\* the sender alone, any subset of its sensors answering at setup()
InitAvail ==
  /\ EnvInit /\ RxInit /\ TxInit
  /\ traffic = "none" /\ resetWired = TRUE /\ ccsPresent \in BOOLEAN

NextAvail ==
  \/ \E probe \in Probes : TxSetupSensors(probe)
  \/ \E ok, radioOk \in BOOLEAN : TxInitCCS811(ok, radioOk, 2 * WIND_MEASUREMENT_TIME)
  \/ \E in \in BusyInputs, ts \in FloatToInt16(time_stamp + 1) : TxRead(in, FALSE, ts)
  \/ AnemoOpen
  \/ \E seen \in CounterReads : AnemoClose(seen)
  \/ \E outcome \in {"ok", "lost"}, d \in SendDurations : TxTransmit(outcome, d)
  \/ TxCheckAutoReset

SpecAvail == InitAvail /\ [][NextAvail]_vars

\* setup() and loop() keep running: the only waits are delay() calls
SpecAvailLive == SpecAvail /\ WF_vars(NextAvail)

\* time from the CCS811's successful begin() to the first loop(): short, or such
\* that the uptime reset is due at the end of the second cycle
LateDurations == {2 * WIND_MEASUREMENT_TIME, RESET_INTERVAL - 2 * WIND_MEASUREMENT_TIME}

\* the sender alone, running into its uptime reset with or without the radio
NextReset ==
  \/ TxSetupSensors(NoSensors)
  \/ \E radioOk \in BOOLEAN, dur \in LateDurations : TxInitCCS811(TRUE, radioOk, dur)
  \/ \E level \in BOOLEAN, ts \in FloatToInt16(time_stamp + 1) :
        TxRead(QuietSensors, level, ts)
  \/ AnemoOpen
  \/ \E seen \in CounterReads : AnemoClose(seen)
  \/ \E outcome \in {"ok", "lost"}, d \in SendDurations : TxTransmit(outcome, d)
  \/ TxCheckAutoReset

SpecReset == InitTx /\ [][NextReset]_vars /\ WF_vars(NextReset)

\* sender, channel and receiver through sender resets: the receiver is powered
\* first, there is no rain and no wind, and the reset falls at the end of the first
\* or of the second cycle of a boot
InitRestart ==
  EnvInit /\ RxInit /\ TxInit /\ traffic = "restart" /\ resetWired = TRUE /\ ccsPresent = TRUE

NextRestart ==
  \/ RxSetup
  \/ RxLoop
  \/ ReceiverIdle /\ TxSetupSensors(NoSensors)
  \/ \E dur \in SetupDurations \cup LateDurations : TxInitCCS811(TRUE, TRUE, dur)
  \/ \E ts \in FloatToInt16(time_stamp + 1) : TxRead(QuietSensors, FALSE, ts)
  \/ AnemoOpen
  \/ \E seen \in CounterReads : ReceiverIdle /\ AnemoClose(seen)
  \/ \E outcome \in Outcomes, d \in SendDurations : TxTransmit(outcome, d)
  \/ TxCheckAutoReset

SpecRestart == InitRestart /\ [][NextRestart]_vars

\* time between two calls of readRainReedData() on its own
RainGaps == {DebounceMs - 150, DebounceMs, DebounceMs + 1}

InitRain == EnvInit /\ RxInit /\ TxInit /\ traffic = "rain" /\ resetWired = TRUE /\ ccsPresent = TRUE

NextRain == \E level \in BOOLEAN, dt \in RainGaps : readRainReedData(level, dt)

SpecRain == InitRain /\ [][NextRain]_vars

\* the sender alone, and readRainReedData() alone on a board whose RESET_PIN is not
\* wired and whose writes never succeed, the reed switch changing between every two
\* calls made one cycle apart
InitTipsLong ==
  /\ EnvInit /\ RxInit /\ TxInit /\ traffic \in {"none", "rainlong"}
  /\ resetWired = (traffic = "none") /\ ccsPresent = TRUE

NextTipsLong ==
  \/ traffic = "none" /\ NextTx
  \/ readRainReedData(~rainEv.level, WIND_MEASUREMENT_TIME)

SpecTipsLong == InitTipsLong /\ [][NextTipsLong]_vars

InitRx == EnvInit /\ RxInit /\ TxInit /\ traffic = "any" /\ resetWired = TRUE /\ ccsPresent = TRUE

NextRx ==
  \/ RxSetup
  \/ RxLoop
  \/ \E s \in SeqSamples, d \in GapSamples : RadioArrive(RecordWithSeq(s), d)

SpecRx == InitRx /\ [][NextRx]_vars

InitFrame == EnvInit /\ RxInit /\ TxInit /\ traffic = "fields" /\ resetWired = TRUE /\ ccsPresent = TRUE

NextFrame ==
  \/ RxSetup
  \/ RxLoop
  \/ \E i \in Fields, v \in FieldSamples, w \in {0, -1} : FieldArrive(i, v, w)

SpecFrame == InitFrame /\ [][NextFrame]_vars

InitRxLong ==
  EnvInit /\ RxInit /\ TxInit /\ traffic \in {"any", "stream"} /\ resetWired = TRUE /\ ccsPresent = TRUE

NextRxLong == NextRx \/ StreamArrive

SpecRxLong == InitRxLong /\ [][NextRxLong]_vars

(***************************************************************************)
(* Sender and link properties.  lastAttempt holds the latest radio.write() *)
(* since boot and the one before it; txScen and rxScen follow the          *)
(* end-to-end scenario on either side of the link.                         *)
(***************************************************************************)

\* the sender side of the end-to-end scenario: attempts 0, 1, 2 succeed, attempt 3
\* fails and leaves the accumulator alone, the next attempt is number 4 and
\* carries at least the tips the failed record carried
ScenarioSender ==
  /\ (txScen = 4 =>
        /\ lastAttempt.seq = 3 /\ ~lastAttempt.ok
        /\ lastAttempt.accAfter = lastAttempt.accBefore
        /\ accumulated_rain_tips >= lastAttempt.accBefore)
  /\ (txScen = 5 =>
        /\ lastAttempt.seq = 4 /\ lastAttempt.prevSeq = 3 /\ ~lastAttempt.prevOk
        /\ lastAttempt.tips >= lastAttempt.prevTips)

\* C1 as stated: in the end-to-end scenario (attempts 0, 1, 2 succeed, 3 fails, the
\* accumulator is kept, the next attempt is 4) the receiver, having processed
\* arrivals 0, 1, 2, 4 within 5000 ms of each other, has a loss count of exactly 1.
C1_ScenarioLossOne ==
  /\ ScenarioSender
  /\ (rxScen = 4 => lostPackets = 1)

\* C1 amended: in the end-to-end scenario the sender keeps the accumulator over the
\* failed attempt 3 and numbers the next attempt 4; the receiver, having processed
\* arrivals 0, 1, 2, 4 within 5000 ms of each other, takes arrival 4 (not the
\* successor of 2, and at most 5) for a sender restart and has a loss count of 0.
C1_ScenarioRestartNotLoss ==
  /\ ScenarioSender
  /\ (rxScen = 4 => (lostPackets = 0 /\ rxEv.branch = "reset" /\ lastPacketNumber = 4))

\* C1 witness: the scenario has run on both sides, with a tip carried over the
\* failed attempt
C1_Witness ==
  /\ txScen = 5 /\ rxScen = 4
  /\ lastAttempt.prevTips > 0 /\ lastAttempt.delivered
  /\ rxEv.seq = 4 /\ rxEv.last = 2

\* C2: without a reset, the rain-tip fields of the successfully sent records plus
\* the accumulator add up to the validated tips; when success means delivery the
\* delivered records carry the same sum; a successful send after a failed one
\* carries the failed record's tips plus the tips validated since.
C2_RainTipConservation ==
  (txRestarts = 0) =>
     /\ tipsSentOk + accumulated_rain_tips = tipsValidated
     /\ (ackLosses = 0 => tipsDelivered = tipsSentOk)
     /\ (lastAttempt.n > 1 /\ lastAttempt.ok /\ ~lastAttempt.prevOk) =>
           lastAttempt.tips =
              lastAttempt.prevTips + (lastAttempt.validated - lastAttempt.prevValidated)

\* C2 witness: a failed send carrying one tip followed by a successful send
\* carrying two
C2_Witness ==
  /\ txRestarts = 0 /\ ackLosses = 0
  /\ lastAttempt.n > 1 /\ lastAttempt.ok /\ ~lastAttempt.prevOk
  /\ lastAttempt.prevTips = 1 /\ lastAttempt.tips = 2
  /\ tipsSentOk = 2 /\ accumulated_rain_tips = 0

\* C3: in the running program (a board reset apart) the accumulator goes down only
\* in a transmission step whose write succeeded, and then to zero; a transmission
\* step whose write failed leaves it unchanged; a sampling step never lowers it.
C3_AccumulatorClearedOnlyOnSuccess ==
  [][ (txRestarts' = txRestarts) =>
        /\ (accumulated_rain_tips' < accumulated_rain_tips =>
              (attempts' = attempts + 1 /\ lastAttempt'.ok /\ accumulated_rain_tips' = 0))
        /\ ((attempts' = attempts + 1 /\ ~lastAttempt'.ok) =>
              accumulated_rain_tips' = accumulated_rain_tips)
        /\ (cycles' = cycles + 1 => accumulated_rain_tips' >= accumulated_rain_tips)
    ]_vars

\* C3 witness: a failed write has left a non-empty accumulator in place
C3_Witness ==
  /\ lastAttempt.n > 0 /\ ~lastAttempt.ok
  /\ lastAttempt.accBefore > 0
  /\ accumulated_rain_tips = lastAttempt.accBefore
  /\ rain_data_pending

\* C4: the record of the n-th attempt since boot carries sequence (n-1) mod 65536,
\* one more (mod 65536) than the attempt before it whether that one succeeded or
\* not, and the counter then stands at n mod 65536; the increment takes 65535 to 0.
C4_SequencePerAttempt ==
  /\ (lastAttempt.n > 0 =>
        /\ lastAttempt.seq = (lastAttempt.n - 1) % Two16
        /\ packetNumber = lastAttempt.n % Two16
        /\ (lastAttempt.n > 1 => lastAttempt.seq = (lastAttempt.prevSeq + 1) % Two16))
  /\ NextPacketNumber(TRUE, Two16 - 1) = 0
  /\ NextPacketNumber(FALSE, Two16 - 1) = 0

\* C4 witness: the third attempt since boot, after a failed second one
C4_Witness ==
  /\ lastAttempt.n = 3 /\ ~lastAttempt.prevOk
  /\ lastAttempt.seq = 2 /\ lastAttempt.prevSeq = 1
  /\ packetNumber = 3

(***************************************************************************)
(* Receiver properties.  rxEv holds the latest processed arrival: the      *)
(* receiver's state before it (synced, last, lastMs, lost, received), the  *)
(* arriving packet number seq and the time nowMs it was read.              *)
(***************************************************************************)
Arrived == rxEv.n > 0

\* time since the previous arrival was read
RxGap == rxEv.nowMs - rxEv.lastMs

\* the arriving number is the successor of the baseline modulo 65536
InSequence == rxEv.seq = (rxEv.last + 1) % Two16

\* (c - (p + 1)) mod 65536
GapDelta == (rxEv.seq - (rxEv.last + 1)) % Two16

SequenceBreak == Arrived /\ rxEv.synced /\ RxGap <= 5000 /\ ~InSequence

\* C5 as stated: on a sequence break with c > 5 the loss counter increases by exactly
\* (c - (p+1)) mod 65536 and the baseline becomes c.
C5_LossDeltaExact ==
  (SequenceBreak /\ rxEv.seq > 5) =>
     (lostPackets = rxEv.lost + GapDelta /\ lastPacketNumber = rxEv.seq)

\* C5 amended: on a sequence break with c > 5 the 16-bit loss counter becomes
\* (old + (c - (p+1)) mod 65536) mod 65536 and the baseline becomes c; for p = N,
\* c = N + 50 the delta is 49.
C5_LossDeltaMod16 ==
  (SequenceBreak /\ rxEv.seq > 5) =>
     /\ lostPackets = (rxEv.lost + GapDelta) % Two16
     /\ lastPacketNumber = rxEv.seq
     /\ (rxEv.seq = rxEv.last + 50 => GapDelta = 49)

\* C5 witness: baseline 6, arrival 56 within 5000 ms, 49 added to the loss counter
C5_Witness ==
  /\ SequenceBreak
  /\ rxEv.last = 6 /\ rxEv.seq = 56
  /\ lostPackets = rxEv.lost + 49

\* C6: an arrival that continues the sequence (c = (p+1) mod 65536) while SYNCED leaves
\* the loss counter unchanged and advances the baseline to c; within the idle threshold
\* it is classified as the in-sequence transition, also for 65535 followed by 0.
C6_InSequenceNoLoss ==
  (Arrived /\ rxEv.synced /\ InSequence) =>
     /\ lostPackets = rxEv.lost
     /\ lastPacketNumber = rxEv.seq
     /\ (RxGap <= 5000 => rxEv.branch = "next")

\* C6 witness: baseline 65535 followed by 0 within the idle threshold
C6_Witness ==
  /\ Arrived /\ rxEv.synced /\ RxGap <= 5000
  /\ rxEv.last = 65535 /\ rxEv.seq = 0
  /\ lastPacketNumber = 0 /\ lostPackets = rxEv.lost

\* attempts between the first and the latest processed record that the receiver
\* did not get
Unobserved == IF rxCount = 0 THEN 0 ELSE (rxLastId - rxFirstId + 1) - rxCount

\* C7 as stated: without a sender restart, after each arrival the cumulative loss
\* count equals the number of attempts between the first and the latest received
\* record that the receiver did not receive.
C7_LossEqualsUnobserved ==
  (txRestarts = 0 /\ rxCount > 0) => lostPackets = Unobserved

\* C7 amended: without a sender restart, after each arrival the cumulative loss
\* count equals the unobserved attempts between the first and the latest received
\* record less those skipped just before an arrival taken for a restart (number at
\* most 5) or for a new sync point (more than 5000 ms after the previous arrival);
\* it never exceeds the unobserved attempts.
C7_LossAtMostUnobserved ==
  (txRestarts = 0 /\ rxCount > 0) =>
     /\ lostPackets = Unobserved - rxUncounted
     /\ lostPackets <= Unobserved

\* C7 witness: attempts 4 and 5 went unobserved between arrivals 3 and 6 and were
\* counted
C7_Witness ==
  /\ txRestarts = 0 /\ rxCount > 1
  /\ rxEv.branch = "loss" /\ rxEv.last = 3 /\ rxEv.seq = 6
  /\ lostPackets = 2 /\ Unobserved >= 2

\* C8: a sequence break with c <= 5 (SYNCED, gap at most 5000 ms) leaves the loss
\* counter unchanged and makes c the baseline.
C8_RestartHeuristic ==
  (SequenceBreak /\ rxEv.seq <= 5) =>
     (lostPackets = rxEv.lost /\ lastPacketNumber = rxEv.seq)

\* C8 witness: baseline 56, arrival 5
C8_Witness ==
  /\ SequenceBreak
  /\ rxEv.last = 56 /\ rxEv.seq = 5
  /\ lastPacketNumber = 5

\* C9: the first arrival after start, and any arrival more than 5000 ms after the
\* previous one, makes the arriving number the baseline and leaves the loss counter
\* unchanged; a gap of exactly 5000 ms does not resync (the sequence is validated).
C9_SyncAndIdleResync ==
  /\ (Arrived /\ (~rxEv.synced \/ RxGap > 5000)) =>
        /\ rxEv.branch = "sync"
        /\ lastPacketNumber = rxEv.seq
        /\ lostPackets = rxEv.lost
  /\ (Arrived /\ rxEv.synced /\ RxGap = 5000) =>
        /\ rxEv.branch # "sync"
        /\ (rxEv.seq > 5 /\ ~InSequence => lostPackets = (rxEv.lost + GapDelta) % Two16)

\* C9 witness: an idle resync, 5001 ms after the previous arrival, on a number that
\* would otherwise count as loss
C9_Witness ==
  /\ Arrived /\ rxEv.synced /\ RxGap = 5001
  /\ rxEv.seq > 5 /\ ~InSequence /\ GapDelta > 0
  /\ lostPackets = rxEv.lost /\ lastPacketNumber = rxEv.seq

\* C10 as stated: every arrival increases receivedCount by exactly one, sets
\* lastArrivalTime to the arrival time and the baseline to the arriving number.
C10_ArrivalBookkeepingExact ==
  Arrived =>
     /\ receivedPackets = rxEv.received + 1
     /\ lastPacketMs = rxEv.nowMs
     /\ lastPacketNumber = rxEv.seq

\* C10 amended: every arrival, whichever branch it takes, increases the 16-bit
\* receivedCount by one modulo 65536 (65535 is followed by 0), sets lastArrivalTime
\* to the arrival time and the baseline to the arriving number.
C10_ArrivalBookkeepingMod16 ==
  Arrived =>
     /\ receivedPackets = (rxEv.received + 1) % Two16
     /\ lastPacketMs = rxEv.nowMs
     /\ lastPacketNumber = rxEv.seq

\* C10 witness: an arrival handled as a restart, counted and time-stamped
C10_Witness ==
  /\ Arrived /\ rxEv.branch = "reset"
  /\ receivedPackets = rxEv.received + 1
  /\ lastPacketMs = rxEv.nowMs /\ rxEv.nowMs > rxEv.lastMs

(***************************************************************************)
(* Forwarding and framing.                                                 *)
(***************************************************************************)

\* the latest loop() pass that read a record wrote its frame first, and no later
\* pass has printed since
FrameWritten ==
  /\ Len(serialOut) >= 2 * length + 2
  /\ SubSeq(serialOut, 1, 2 * length + 2) = Frame(rxEv.rec)

\* C11: every arrival is forwarded whatever its classification: one frame per
\* processed arrival, the k-th frame is that of the k-th arrival, every arrival is
\* either forwarded or still waiting in the radio, and frames never outnumber
\* arrivals.
C11_EveryArrivalForwarded ==
  /\ rxEv.frames = rxEv.n
  /\ rxEv.id = rxEv.n
  /\ rxEv.n + Len(radioFifo) = arrivals
  /\ rxEv.frames <= arrivals
  /\ (Arrived => FrameWritten /\ rxResults = rxEv.rec)

\* C11 witness: the third arrival counted as loss and was forwarded as third frame
C11_Witness ==
  /\ rxEv.branch = "loss" /\ rxEv.n = 3
  /\ rxEv.frames = 3 /\ rxEv.id = 3
  /\ FrameWritten /\ lostPackets > 0

\* the payload bytes of the frame on the output stream
FramePayload == SubSeq(serialOut, 2, 2 * length + 1)

\* C12: the frame is 'D', the 32 bytes of the record as read from the radio, low
\* byte first and in index order, then 'E' (34 bytes); the validator does not
\* alter the record; decoding the payload gives back the 16 integers.
C12_FrameRoundTrip ==
  Arrived =>
     /\ Len(serialOut) >= 34
     /\ serialOut[1] = "D" /\ serialOut[34] = "E"
     /\ rxResults = rxEv.rec
     /\ \A k \in 1 .. 32 : FramePayload[k] \in 0 .. 255
     /\ \A i \in Fields :
           FramePayload[2 * i + 1] + 256 * FramePayload[2 * i + 2] = rxEv.rec[i] % 65536
     /\ DecodeRecord(FramePayload) = rxEv.rec

\* C12 witness: a record with a negative field and a field above one byte
C12_Witness ==
  /\ Arrived /\ rxEv.rec[3] = -256 /\ rxEv.rec[7] = -1
  /\ FramePayload[7] = 0 /\ FramePayload[8] = 255
  /\ DecodeRecord(FramePayload)[3] = -256

(***************************************************************************)
(* Rain switch and anemometer.  rainEv holds the sampling ticks since      *)
(* boot: the latest level and, when the switch is sampled on its own, the  *)
(* two latest ticks that read HIGH after a tick that read LOW.             *)
(***************************************************************************)

\* the latest tick read a rising edge, an earlier tick read one too, and the
\* earlier one was counted
SecondRise ==
  /\ rainEv.rises >= 2
  /\ rainEv.at = rainEv.rise.at
  /\ rainEv.prevRise.counted

\* time between the two latest rising edges
RiseGap == rainEv.rise.at - rainEv.prevRise.at

\* the return to LOW between the two rising edges was accepted, and more than
\* 250 ms before the second
FallAccepted ==
  /\ ~rainEv.rise.lastBefore
  /\ rainEv.rise.at - rainEv.rise.changedBefore > DebounceMs

C14_FirstTickCountsNothing ==
  rainEv.ticks = 1 =>
     /\ lastState = rainEv.level
     /\ ~firstLoop
     /\ accumulated_rain_tips = 0
     /\ ~rain_data_pending
     /\ tipsValidated = 0
     /\ results[5] = 0

\* C14 witness: the first tick read HIGH
C14_Witness ==
  /\ rainEv.ticks = 1 /\ rainEv.level /\ lastState
  /\ accumulated_rain_tips = 0 /\ txPc = "anemo"

C16_CountersPartitionAttempts ==
  /\ [](successfulTransmissions + failedTransmissions = attempts)
  /\ [][attempts' > attempts =>
          /\ attempts' = attempts + 1
          /\ IF lastAttempt'.ok
             THEN /\ successfulTransmissions' = successfulTransmissions + 1
                  /\ failedTransmissions' = failedTransmissions
             ELSE /\ successfulTransmissions' = successfulTransmissions
                  /\ failedTransmissions' = failedTransmissions + 1]_vars

\* C16 witness: three attempts since boot, the latest failed, one failure and two
\* successes counted
C16_Witness ==
  /\ attempts = 3 /\ lastAttempt.n = 3 /\ ~lastAttempt.ok
  /\ successfulTransmissions = 2 /\ failedTransmissions = 1

\* the k-th attempt since boot has just failed, the uptime reset is not due at the
\* end of its cycle, and the run has a cycle left
FailedAttempt(k) ==
  /\ txPc = "check"
  /\ lastAttempt.n = k /\ ~lastAttempt.ok
  /\ radio_available
  /\ ~ResetDue(TxMillis(now))
  /\ cycles < CycleBound

\* the attempt after the k-th has been made: next sequence number, and a rain-tip
\* field not below that of the k-th
RetriedAfter(k) ==
  /\ lastAttempt.n = k + 1
  /\ lastAttempt.seq = (lastAttempt.prevSeq + 1) % Two16
  /\ lastAttempt.tips >= lastAttempt.prevTips

\* C17: a failed attempt is followed by another attempt, whose record carries the
\* next sequence number and a rain-tip field at least as large as that of the failed
\* record.
C17_FailureIsFollowedByRetry ==
  \A k \in 1 .. MaxTxCycles : FailedAttempt(k) ~> RetriedAfter(k)

\* C17 witness: the attempt after a failed second one that carried a tip has been
\* made, and it failed too
C17_Witness ==
  /\ lastAttempt.n = 3 /\ ~lastAttempt.prevOk /\ ~lastAttempt.ok
  /\ lastAttempt.prevTips = 1 /\ lastAttempt.tips >= 1
  /\ lastAttempt.seq = lastAttempt.prevSeq + 1

\* transmitData() has just returned from an attempt
AfterAttempt == txPc = "check" /\ lastAttempt.n > 0 /\ radio_available

\* that attempt ended with printTransmissionStats()
StatsReported == Len(txSerial) >= 3

C19_StatsOncePerHundred ==
  /\ statsSince <= 1
  /\ statsSince = 1 =>
        /\ Arrived
        /\ receivedPackets > 0
        /\ receivedPackets % 100 = 0

(***************************************************************************)
(* Field ranges.  sensed holds the readings the latest loop() pass read.   *)
(***************************************************************************)

\* an unsigned source value clamped to the signed 16-bit maximum
ClampInt16(x) == Min(x, Two16 \div 2 - 1)

\* C20 as stated: once a cycle has read its sensors, the illuminance field is the
\* raw reading clamped to 32767, and the rain-tip, wind-pulse, CO2, volatile-organic
\* and baseline fields are their unsigned sources clamped to 32767
C20_FieldsClamped ==
  (txPc \in {"anemo", "window", "send"} /\ light_sensor_available
      /\ ccs811_sensor_available /\ sensed.ready) =>
     /\ results[4] = ClampInt16(sensed.lux)
     /\ results[5] = ClampInt16(accumulated_rain_tips)
     /\ txPc = "send" => results[6] = ClampInt16(wind_revolutions_this_cycle)
     /\ results[12] = ClampInt16(sensed.co2)
     /\ results[13] = ClampInt16(sensed.tvoc)
     /\ results[14] = ClampInt16(sensed.baseline)

(***************************************************************************)
(* Width of the receiver's counters.  rxEv.n is the number of arrivals     *)
(* processed and rxEv.lostSum the sum of the loss deltas, both unbounded.  *)
(***************************************************************************)

\* C21: the two counters are 16 bits wide: lostPackets is the sum of the loss
\* deltas modulo 65536 and receivedPackets the number of arrivals modulo 65536.
C21_CountersMod16 ==
  /\ lostPackets = rxEv.lostSum % Two16
  /\ receivedPackets = rxEv.n % Two16

\* C21 as stated: the two counters hold the exact sum of the loss deltas and the
\* exact number of arrivals (sums below 2^32)
C21_CountersExact ==
  /\ lostPackets = rxEv.lostSum
  /\ receivedPackets = rxEv.n

\* C21 witness: the loss deltas add up to 65536 or more and the counter has wrapped
C21_Witness ==
  /\ Arrived /\ rxEv.branch = "loss"
  /\ rxEv.lostSum >= Two16
  /\ lostPackets = rxEv.lostSum - Two16

(***************************************************************************)
(* Record layout and sensor availability.  After transmitData() results is *)
(* the record that was written to the radio.                               *)
(***************************************************************************)

\* the fields of the sensors that are missing, or have nothing new, are 0
MissingFieldsZero ==
  /\ ~bme_sensor_available => results[1] = 0 /\ results[2] = 0 /\ results[3] = 0
  /\ ~light_sensor_available => results[4] = 0
  /\ ~mlx_sensor_available => results[8] = 0 /\ results[9] = 0
  /\ (~ccs811_sensor_available \/ ~sensed.ready)
        => results[12] = 0 /\ results[13] = 0 /\ results[14] = 0

LaterTick == rainEv'.ticks = rainEv.ticks + 1 /\ ~firstLoop

\* the tick read a level other than lastState
ChangeSeen == LaterTick /\ rainEv'.level # lastState

\* the tick's millis() is more than 250 ms after lastChanged
OutsideWindow == DebouncePassed(rainEv'.at, lastChanged)

C24_CountsOnlyAcceptedRise ==
  [][/\ accumulated_rain_tips' > accumulated_rain_tips =>
           /\ accumulated_rain_tips' = accumulated_rain_tips + 1
           /\ ChangeSeen /\ OutsideWindow
           /\ rainEv'.level /\ ~lastState
           /\ lastState' /\ lastChanged' = rainEv'.at
           /\ rain_data_pending'
     /\ (ChangeSeen /\ OutsideWindow /\ ~rainEv'.level) =>
           /\ ~lastState'
           /\ lastChanged' = rainEv'.at
           /\ accumulated_rain_tips' = accumulated_rain_tips
           /\ rain_data_pending' = rain_data_pending]_vars

\* C24 witness: a counted tip, then an accepted return to LOW
C24_Witness ==
  /\ rainEv.ticks >= 3 /\ ~rainEv.level /\ ~lastState
  /\ lastChanged = rainEv.at
  /\ accumulated_rain_tips = 1 /\ rain_data_pending

(***************************************************************************)
(* The measurement window.                                                 *)
(***************************************************************************)

\* the step is the one that ends the window and fills the wind field
WindowCloses == txPc = "window" /\ txPc' = "send"

\* C25: the handler is attached exactly while the main context is inside the
\* window; the counter is written by the handler only there (the main context
\* writes its 0 before attaching); the step that reads it leaves the handler
\* detached and contains no increment, and the counter does not move afterwards.
C25_CounterUsedOnlyInWindow ==
  /\ [](intAttached <=> txPc = "window")
  /\ [][/\ InterruptCounter' > InterruptCounter =>
              /\ txPc = "window" /\ txPc' = "window" /\ intAttached
              /\ InterruptCounter' = InterruptCounter + 1
        /\ (InterruptCounter' # InterruptCounter /\ txPc # "window") =>
              /\ InterruptCounter' = 0
              /\ txPc = "anemo" \/ txPc' = "boot"
        /\ WindowCloses =>
              /\ ~intAttached'
              /\ InterruptCounter' = InterruptCounter
        /\ results'[6] # results[6] => (WindowCloses \/ txPc' = "boot")]_vars

\* C25 witness: two pulses were counted inside the window and the field was filled
\* after the detach
C25_Witness ==
  /\ txPc = "send" /\ ~intAttached
  /\ windowEdges = 2 /\ InterruptCounter = 2
  /\ wind_revolutions_this_cycle = 2 /\ results[6] = 2

\* C26: a window that has opened closes, with the handler detached, and with the
\* radio available the cycle goes on to its transmission attempt; there is one
\* attempt per loop() pass (time_stamp counts the passes since boot), and it is made
\* with the window closed.
C26_WindowCompletesThenOneAttempt ==
  /\ (txPc = "window") ~> (txPc = "send" /\ ~intAttached)
  /\ \A k \in 0 .. MaxTxCycles :
        (txPc = "window" /\ radio_available /\ attempts = k)
           ~> (txPc = "check" /\ attempts = k + 1 /\ ~intAttached)
  /\ [](radio_available =>
           attempts = (IF txPc \in {"anemo", "window", "send"}
                       THEN time_stamp - 1 ELSE time_stamp))
  /\ [][attempts' > attempts =>
           /\ txPc = "send" /\ txPc' = "check"
           /\ ~intAttached /\ ~intAttached'
           /\ attempts' = attempts + 1]_vars

\* C26 witness: the second pass has made its attempt after a window in which a
\* pulse arrived
C26_Witness ==
  /\ txPc = "check" /\ radio_available /\ ~intAttached
  /\ time_stamp = 2 /\ attempts = 2 /\ lastAttempt.n = 2
  /\ windowEdges = 1

\* C27 as stated: whatever answers at setup(), setup() ends, and with the radio
\* available the first attempt follows, with the fields of the missing sensors 0
C27_SetupAlwaysEnds ==
  /\ (txPc = "boot") ~> (txPc = "read")
  /\ (txPc = "read" /\ radio_available /\ attempts = 0)
        ~> (txPc = "check" /\ attempts = 1 /\ MissingFieldsZero)

(***************************************************************************)
(* Uptime reset (RESET_PIN wired to the reset input).                      *)
(***************************************************************************)

\* millis() is above RESET_INTERVAL
UptimeOver == TxMillis(now) > RESET_INTERVAL

\* the step is the board's reset
BoardResets == txRestarts' = txRestarts + 1

\* C28: the reset happens only at the end of a cycle with the uptime above
\* RESET_INTERVAL, after the cycle's attempt (radio available), and every cycle
\* that ends with the uptime above RESET_INTERVAL ends in it, whether the attempt
\* succeeded or not and whether tips are pending or not.  The reset leaves the
\* sequence counter and the accumulator at 0, and the records after it carry only
\* tips counted since: at most one per sampling tick after the first.  A cycle
\* under way when the uptime passes RESET_INTERVAL reaches the reset.
C28_ResetAtEndOfCycle ==
  /\ [][/\ BoardResets =>
              /\ txPc = "check" /\ UptimeOver
              /\ radio_available => lastAttempt.n = time_stamp
              /\ txPc' = "boot"
              /\ packetNumber' = 0
              /\ accumulated_rain_tips' = 0 /\ ~rain_data_pending'
              /\ firstLoop'
        /\ (txPc = "check" /\ UptimeOver /\ txPc' # txPc) => BoardResets
        /\ (txPc = "boot" /\ txPc' # txPc) =>
              /\ packetNumber' = 0 /\ accumulated_rain_tips' = 0]_vars
  /\ [](lastAttempt.n > 0 =>
           /\ lastAttempt.seq = lastAttempt.n - 1
           /\ lastAttempt.tips <= lastAttempt.n - 1)
  /\ (txPc \in {"anemo", "window", "send", "check"} /\ UptimeOver)
        ~> (txPc = "boot" /\ packetNumber = 0 /\ accumulated_rain_tips = 0)

\* C28 witness: the board has been reset with a tip pending after a failed
\* attempt, and the first record after the reset carries sequence 0 and no tip
C28_Witness ==
  /\ txRestarts = 1 /\ tipsValidated = 1 /\ tipsSentOk = 0
  /\ txPc = "check" /\ lastAttempt.n = 1
  /\ lastAttempt.seq = 0 /\ lastAttempt.tips = 0
  /\ accumulated_rain_tips = 0

(***************************************************************************)
(* Sender, channel and receiver together, with sender restarts.           *)
(***************************************************************************)

\* attempts so far whose record the receiver has not processed
NotReceived == writes - rxCount

\* C29: with sender restarts, the loss counter never exceeds the attempts the
\* receiver missed between the first and the latest record it processed, which
\* are among the attempts whose records it did not receive.
C29_LossNeverAboveMissed ==
  /\ lostPackets <= Unobserved
  /\ Unobserved <= NotReceived
  /\ lostPackets <= NotReceived

\* C29 witness: after a sender restart a record of the new boot was dropped and
\* the receiver counted it
C29_Witness ==
  /\ Arrived /\ rxEv.boot >= 1 /\ rxEv.prevBoot = rxEv.boot
  /\ rxEv.branch = "loss"
  /\ lostPackets >= 1 /\ lostPackets <= NotReceived

\* the latest processed record is the first one the receiver got from a new boot
\* of the sender
FirstAfterRestart == Arrived /\ rxEv.n > 1 /\ rxEv.boot > rxEv.prevBoot

\* C30: the first record received after a sender restart leaves the loss counter
\* as it was: it is taken as in sequence, as a restart (number at most 5) or as a
\* new sync point (more than 5000 ms after the previous arrival), however many
\* records of the new boot were dropped before it.
C30_RestartAddsNoLoss ==
  FirstAfterRestart =>
    /\ lostPackets = rxEv.lost
    /\ rxEv.branch \in {"next", "reset", "sync"}
    /\ (rxEv.branch = "next" => InSequence)
    /\ (rxEv.branch = "reset" => rxEv.seq <= ResetThreshold /\ RxGap <= IdleResyncMs)
    /\ (rxEv.branch = "sync" => RxGap > IdleResyncMs)
    /\ (rxEv.seq > ResetThreshold /\ ~InSequence => rxEv.branch = "sync")

\* C30 witness: the records numbered 0 to 5 of the new boot were dropped and the
\* one numbered 6 was taken as a new sync point without a counted loss
C30_Witness ==
  /\ FirstAfterRestart /\ rxEv.seq = ResetThreshold + 1 /\ ~InSequence
  /\ rxEv.branch = "sync" /\ lostPackets = rxEv.lost

(***************************************************************************)
(* The receiver's sync flag.                                               *)
(***************************************************************************)

\* C31: the sync flag never goes back to false: it is false exactly while no
\* record has been read, every read leaves it true, and a read that follows a
\* silence longer than the idle limit leaves it true as well.
C31_SyncedMonotonic ==
  [][/\ isSynced => isSynced'
     /\ isSynced' <=> rxEv'.n > 0
     /\ rxEv'.n > rxEv.n => isSynced']_vars

\* C31 witness: a record read more than 5000 ms after the previous one found the
\* flag true and left it true
C31_Witness ==
  /\ rxEv.n > 1 /\ rxEv.synced /\ RxGap > IdleResyncMs
  /\ rxEv.branch = "sync" /\ isSynced

(***************************************************************************)
(* The transmission step without a radio.                                  *)
(***************************************************************************)

\* the transmission step is taken with the radio unavailable
SkippedSend == txPc = "send" /\ ~radio_available

\* C32: with the radio unavailable the transmission step leaves the packet
\* number, both transmission counters, the tip accumulator and the pending flag
\* as they were, and a tip validated in a later cycle still adds one to the
\* accumulator and sets the pending flag.
C32_NoRadioNoProtocolChange ==
  [][/\ SkippedSend =>
          /\ txPc' \in {"send", "check"}
          /\ UNCHANGED <<packetNumber, successfulTransmissions, failedTransmissions,
                         accumulated_rain_tips, rain_data_pending>>
     /\ (~radio_available /\ tipsValidated' = tipsValidated + 1) =>
          /\ accumulated_rain_tips' = accumulated_rain_tips + 1
          /\ rain_data_pending']_vars

\* C32 witness: without a radio two transmission steps were skipped with tips
\* waiting, the second with more tips than the first, and nothing was counted
C32_Witness ==
  /\ ~radio_available /\ txPc = "check" /\ txSerial = <<"Radio not available">>
  /\ accumulated_rain_tips = 2 /\ rain_data_pending
  /\ packetNumber = 0 /\ successfulTransmissions = 0 /\ failedTransmissions = 0

(***************************************************************************)
(* The packet number through the record.                                   *)
(***************************************************************************)

\* the counter of the sender at the attempt whose record was read last, for a
\* sender that numbers its attempts from 0
SentCounter == (rxEv.id - 1) % Two16

\* C33: for a sender that runs through every counter value 0..65535, the number
\* the receiver extracts from field 7 equals the counter the sender stored there,
\* the field itself holding the counter narrowed to a signed 16-bit value.
C33_SeqRoundTrip ==
  (traffic = "stream" /\ Arrived) =>
     /\ rxEv.rec[SeqIdx] \in -(Two16 \div 2) .. (Two16 \div 2 - 1)
     /\ rxEv.rec[SeqIdx] = (IF SentCounter >= Two16 \div 2
                            THEN SentCounter - Two16 ELSE SentCounter)
     /\ rxEv.seq = SentCounter

\* C33 witness: the counter 32768 travelled as -32768 and was read back as 32768
C33_Witness ==
  /\ traffic = "stream" /\ Arrived /\ SentCounter = Two16 \div 2
  /\ rxEv.rec[SeqIdx] = -(Two16 \div 2) /\ rxEv.seq = Two16 \div 2

(***************************************************************************)
(* The pending flag and the tip accumulator.                               *)
(***************************************************************************)

=============================================================================
